---- MODULE Spec2Model ----
(***************************************************************************)
(* Model of src/llm.py: the metrics fetcher                                *)
(* (fetch_rmse_metrics_from_snowflake) and the report generator            *)
(* (generate_physio_report).  One behaviour is one call of one of the two  *)
(* entry points; the warehouse, the inference endpoint, the local file     *)
(* system and the blob store answer nondeterministically (success with a   *)
(* value, or an exception).                                                *)
(*                                                                         *)
(* Python strings are sequences of one-character strings, so that          *)
(* substring tests, JSON encoding and JSON parsing are computed.           *)
(***************************************************************************)
EXTENDS Integers, Sequences, FiniteSets

\* ---------------------------------------------------------------- bounds
MaxRows == 3
MaxRmse == 2
MaxSteps == 1

\* ------------------------------------------------------- optional values
None == <<>>
Some(x) == <<x>>
IsSome(o) == Len(o) = 1
Get(o) == o[1]

\* --------------------------------------------------------------- strings
\* "".join(ss), split in halves to keep the evaluation shallow
RECURSIVE Concat(_)
Concat(ss) ==
  IF ss = <<>> THEN <<>>
  ELSE IF Len(ss) = 1 THEN ss[1]
  ELSE LET h == Len(ss) \div 2
       IN  Concat(SubSeq(ss, 1, h)) \o Concat(SubSeq(ss, h + 1, Len(ss)))

\* Python's `sub in s` on str
Contains(s, sub) ==
  \E i \in 1..(Len(s) - Len(sub) + 1) : SubSeq(s, i, i + Len(sub) - 1) = sub

ANGLE == <<"A","N","G","L","E">>
KNEE_ANGLE == <<"K","N","E","E","_">> \o ANGLE
HIP_ABDUCTION_ANGLE == <<"H","I","P","_","A","B","D","U","C","T","I","O","N","_">> \o ANGLE
LEFT_WRIST == <<"L","E","F","T","_","W","R","I","S","T">>
LEFT_ANKLE == <<"L","E","F","T","_","A","N","K","L","E">>
ELBOW_ANGLE == <<"E","L","B","O","W","_">> \o ANGLE

\* ------------------------------------------------- warehouse query result
KeypointNames == {KNEE_ANGLE, HIP_ABDUCTION_ANGLE, LEFT_WRIST, LEFT_ANKLE, ELBOW_ANGLE}
RmseValues == 1..MaxRmse
Rows == [KEYPOINT_NAME : KeypointNames, RMSE : RmseValues]
Tables == UNION {[1..n -> Rows] : n \in 0..MaxRows}

\* df[df["KEYPOINT_NAME"] == name]["RMSE"].values
RmseOf(row) == row.RMSE
RECURSIVE values(_, _)
values(df, name) ==
  IF df = <<>> THEN <<>>
  ELSE (IF Head(df).KEYPOINT_NAME = name THEN <<RmseOf(Head(df))>> ELSE <<>>)
       \o values(Tail(df), name)

\* .values[0]
first_last(vals) == vals[Len(vals)]
first(vals) == vals[1]

\* the dict comprehension of "3D_RMSE": a later row overwrites an earlier key
positional_rmse_nofilter(df) ==
  LET keys == {df[i].KEYPOINT_NAME : i \in 1..Len(df)}
      last(k) == CHOOSE i \in 1..Len(df) :
                   /\ df[i].KEYPOINT_NAME = k
                   /\ \A j \in (i+1)..Len(df) : df[j].KEYPOINT_NAME # k
  IN  [k \in keys |-> df[last(k)].RMSE]
positional_rmse(df) ==
  LET keys == {df[i].KEYPOINT_NAME : i \in {j \in 1..Len(df) : ~Contains(df[j].KEYPOINT_NAME, ANGLE)}}
      last(k) == CHOOSE i \in 1..Len(df) :
                   /\ df[i].KEYPOINT_NAME = k
                   /\ \A j \in (i+1)..Len(df) : df[j].KEYPOINT_NAME # k
  IN  [k \in keys |-> df[last(k)].RMSE]

\* the dict literal of lines 22-26; raised = IndexError from .values[0]
rmse_metrics_default(df) ==
  LET knee == values(df, KNEE_ANGLE)
      hip  == values(df, HIP_ABDUCTION_ANGLE)
  IN  [raised |-> FALSE,
       val |-> [rmse3d |-> positional_rmse(df),
                knee_angle_rmse |-> IF knee = <<>> THEN 0 ELSE first(knee),
                hip_abduction_angle_rmse |-> IF hip = <<>> THEN 0 ELSE first(hip)]]
rmse_metrics_swapped(df) ==
  LET knee == values(df, HIP_ABDUCTION_ANGLE)
      hip  == values(df, KNEE_ANGLE)
  IN  IF knee = <<>> \/ hip = <<>>
      THEN [raised |-> TRUE, val |-> None]
      ELSE [raised |-> FALSE,
            val |-> [rmse3d |-> positional_rmse(df),
                     knee_angle_rmse |-> first(knee),
                     hip_abduction_angle_rmse |-> first(hip)]]
rmse_metrics(df) ==
  LET knee == values(df, KNEE_ANGLE)
      hip  == values(df, HIP_ABDUCTION_ANGLE)
  IN  IF knee = <<>> \/ hip = <<>>
      THEN [raised |-> TRUE, val |-> None]
      ELSE [raised |-> FALSE,
            val |-> [rmse3d |-> positional_rmse(df),
                     knee_angle_rmse |-> first(knee),
                     hip_abduction_angle_rmse |-> first(hip)]]

\* ------------------------------------------------------------------ JSON
\* A decoded JSON value (what json.loads returns): str, list, dict (members
\* in insertion order) and the literals.
JStr(s)  == [kind |-> "string", str |-> s,    elems |-> <<>>]
JArr(es) == [kind |-> "array",  str |-> <<>>, elems |-> es]
JObj(ms) == [kind |-> "object", str |-> <<>>, elems |-> ms]
JLit(k)  == [kind |-> k,        str |-> <<>>, elems |-> <<>>]
Member(k, v) == [key |-> k, val |-> v]

NoIndent == 0 - 1
Literals == {"null", "true", "false"}
LiteralText(k) ==
  CASE k = "null"  -> <<"n","u","l","l">>
    [] k = "true"  -> <<"t","r","u","e">>
    [] k = "false" -> <<"f","a","l","s","e">>

\* json.encoder: py_encode_basestring_ascii
EscapeChar(c) ==
  CASE c = "\"" -> <<"\\", "\"">>
    [] c = "\\" -> <<"\\", "\\">>
    [] c = "\n" -> <<"\\", "n">>
    [] c = "\t" -> <<"\\", "t">>
    [] c = "\r" -> <<"\\", "r">>
    [] OTHER    -> <<c>>
Quote(s) == <<"\"">> \o Concat([i \in 1..Len(s) |-> EscapeChar(s[i])]) \o <<"\"">>

RECURSIVE Spaces(_)
Spaces(n) == IF n <= 0 THEN <<>> ELSE <<" ">> \o Spaces(n - 1)
Newline(indent, lvl) == IF indent = NoIndent THEN <<>> ELSE <<"\n">> \o Spaces(indent * lvl)
ItemSep(indent, lvl) == IF indent = NoIndent THEN <<",", " ">> ELSE <<",">> \o Newline(indent, lvl)

RECURSIVE Join(_, _)
Join(parts, sep) ==
  IF parts = <<>> THEN <<>>
  ELSE IF Len(parts) = 1 THEN parts[1]
  ELSE parts[1] \o sep \o Join(Tail(parts), sep)

\* json.dumps(v, indent=indent), at nesting depth lvl
RECURSIVE Encode(_, _, _)
Encode(v, indent, lvl) ==
  CASE v.kind = "string" -> Quote(v.str)
    [] v.kind = "array" ->
         IF v.elems = <<>> THEN <<"[", "]">>
         ELSE <<"[">> \o Newline(indent, lvl + 1)
              \o Join([i \in 1..Len(v.elems) |-> Encode(v.elems[i], indent, lvl + 1)],
                      ItemSep(indent, lvl + 1))
              \o Newline(indent, lvl) \o <<"]">>
    [] v.kind = "object" ->
         IF v.elems = <<>> THEN <<"{", "}">>
         ELSE <<"{">> \o Newline(indent, lvl + 1)
              \o Join([i \in 1..Len(v.elems) |->
                         Quote(v.elems[i].key) \o <<":", " ">>
                         \o Encode(v.elems[i].val, indent, lvl + 1)],
                      ItemSep(indent, lvl + 1))
              \o Newline(indent, lvl) \o <<"}">>
    [] OTHER -> LiteralText(v.kind)

json_dumps(v, indent) == Encode(v, indent, 0)

\* json.decoder
Whitespace == {" ", "\n", "\t", "\r"}
RECURSIVE SkipWs(_, _)
SkipWs(s, i) == IF i <= Len(s) /\ s[i] \in Whitespace THEN SkipWs(s, i + 1) ELSE i

Fail == [ok |-> FALSE, val |-> JLit("null"), pos |-> 0]
Ok(v, p) == [ok |-> TRUE, val |-> v, pos |-> p]

Unescape(c) ==
  CASE c = "n" -> "\n"
    [] c = "t" -> "\t"
    [] c = "r" -> "\r"
    [] OTHER   -> c

\* number of consecutive backslashes that end right before position j
RECURSIVE BackslashesBefore(_, _, _)
BackslashesBefore(s, i, j) ==
  IF j - 1 >= i /\ s[j - 1] = "\\" THEN 1 + BackslashesBefore(s, i, j - 1) ELSE 0

\* py_scanstring from position i, the character after the opening quote
\* (strict mode: a raw control character is an error)
ScanString(s, i) ==
  LET Escaped(j) == BackslashesBefore(s, i, j) % 2 = 1
      Closes(j)  == s[j] = "\"" /\ ~Escaped(j)
  IN  IF ~(\E j \in i..Len(s) : Closes(j)) THEN Fail
      ELSE
        LET e == CHOOSE j \in i..Len(s) : Closes(j) /\ \A k \in i..(j - 1) : ~Closes(k)
            Bad(k) == /\ ~Escaped(k)
                      /\ \/ s[k] \in {"\n", "\t", "\r"}
                         \/ s[k] = "\\" /\ s[k + 1] \notin {"\"", "\\", "/", "n", "t", "r"}
            Kept(k) == ~(s[k] = "\\" /\ ~Escaped(k))
            kept == SelectSeq([n \in 1..(e - i) |-> i + n - 1], Kept)
        IN  IF \E k \in i..(e - 1) : Bad(k) THEN Fail
            ELSE Ok(JStr([n \in 1..Len(kept) |->
                           IF Escaped(kept[n]) THEN Unescape(s[kept[n]]) ELSE s[kept[n]]]),
                    e + 1)

\* dict assignment: an existing key keeps its position and takes the new value
Put(ms, k, v) ==
  IF \E i \in 1..Len(ms) : ms[i].key = k
  THEN [i \in 1..Len(ms) |-> IF ms[i].key = k THEN Member(k, v) ELSE ms[i]]
  ELSE Append(ms, Member(k, v))

StartsWith(s, i, w) == i + Len(w) - 1 <= Len(s) /\ SubSeq(s, i, i + Len(w) - 1) = w

RECURSIVE ParseValue(_, _)
RECURSIVE ParseElems(_, _, _)
RECURSIVE ParseMembers(_, _, _)

\* scanner.scan_once at index i
ParseValue(s, i) ==
  IF i > Len(s) THEN Fail
  ELSE IF s[i] = "\"" THEN ScanString(s, i + 1)
  ELSE IF s[i] = "[" THEN
         LET j == SkipWs(s, i + 1)
         IN  IF j <= Len(s) /\ s[j] = "]" THEN Ok(JArr(<<>>), j + 1)
             ELSE ParseElems(s, j, <<>>)
  ELSE IF s[i] = "{" THEN
         LET j == SkipWs(s, i + 1)
         IN  IF j <= Len(s) /\ s[j] = "}" THEN Ok(JObj(<<>>), j + 1)
             ELSE ParseMembers(s, j, <<>>)
  ELSE IF \E k \in Literals : StartsWith(s, i, LiteralText(k)) THEN
         LET k == CHOOSE k \in Literals : StartsWith(s, i, LiteralText(k))
         IN  Ok(JLit(k), i + Len(LiteralText(k)))
  ELSE Fail

\* JSONArray after the first element position
ParseElems(s, i, acc) ==
  LET r == ParseValue(s, i)
      j == SkipWs(s, r.pos)
  IN  IF ~r.ok \/ j > Len(s) THEN Fail
      ELSE IF s[j] = "," THEN ParseElems(s, SkipWs(s, j + 1), Append(acc, r.val))
      ELSE IF s[j] = "]" THEN Ok(JArr(Append(acc, r.val)), j + 1)
      ELSE Fail

\* JSONObject at the opening quote of a key
ParseMembers(s, i, acc) ==
  IF i > Len(s) \/ s[i] # "\"" THEN Fail
  ELSE
    LET k == ScanString(s, i + 1)
        c == SkipWs(s, k.pos)
    IN  IF ~k.ok \/ c > Len(s) \/ s[c] # ":" THEN Fail
        ELSE
          LET r == ParseValue(s, SkipWs(s, c + 1))
              j == SkipWs(s, r.pos)
          IN  IF ~r.ok \/ j > Len(s) THEN Fail
              ELSE IF s[j] = "," THEN ParseMembers(s, SkipWs(s, j + 1), Put(acc, k.val.str, r.val))
              ELSE IF s[j] = "}" THEN Ok(JObj(Put(acc, k.val.str, r.val)), j + 1)
              ELSE Fail

\* json.loads(s): raised = JSONDecodeError
json_loads_lenient(s) ==
  LET r == ParseValue(s, SkipWs(s, 1))
  IN  [raised |-> FALSE, val |-> IF r.ok THEN r.val ELSE JLit("null")]
json_loads(s) ==
  LET r == ParseValue(s, SkipWs(s, 1))
  IN  IF r.ok /\ SkipWs(s, r.pos) = Len(s) + 1
      THEN [raised |-> FALSE, val |-> r.val]
      ELSE [raised |-> TRUE, val |-> JLit("null")]

\* ------------------------------------------------- report generator inputs
OK == <<"O","K">>
Tricky == <<"a", "\"", "\\", "\n">>
StrPool == {OK, Tricky}

K_steps == <<"s","t","e","p","s">>
K_explanation == <<"e","x","p","l","a","n","a","t","i","o","n">>
K_suggestion == <<"s","u","g","g","e","s","t","i","o","n">>
K_final_report == <<"f","i","n","a","l","_","r","e","p","o","r","t">>

\* values that conform to the schema of lines 87-106
StepValue(e, g) == JObj(<<Member(K_explanation, JStr(e)), Member(K_suggestion, JStr(g))>>)
ReportValue(st, f) == JObj(<<Member(K_steps, JArr(st)), Member(K_final_report, JStr(f))>>)
StepValues == {StepValue(e, g) : e \in StrPool, g \in StrPool}
Reports == {ReportValue(st, f) :
              st \in UNION {[1..n -> StepValues] : n \in 0..MaxSteps}, f \in StrPool}

\* response.output_text: what the endpoint can send back
ConformingTexts == {json_dumps(r, NoIndent) : r \in Reports}
NonConformingTexts == {json_dumps(JArr(<<>>), NoIndent), json_dumps(JStr(OK), NoIndent)}
MalformedTexts ==
  {<<>>, OK} \cup {SubSeq(t, 1, Len(t) - 1) : t \in ConformingTexts}
             \cup {t \o <<"}">> : t \in ConformingTexts}
ResponseTexts == ConformingTexts \cup NonConformingTexts \cup MalformedTexts

patient_info == [age |-> 30, height |-> 170, weight |-> 65]
rmse_metrics_arg ==
  [rmse3d |-> [k \in {LEFT_WRIST} |-> 1], knee_angle_rmse |-> 2, hip_abduction_angle_rmse |-> 1]
gif_s3_url == <<"s","3",":","/","/","g">>
Buckets == {<<"b","1">>, <<"b","2">>}
report_s3_path == <<"r",".","j","s","o","n">>

\* lines 43-71: the fields the template interpolates
prompt_text(info, metrics) ==
  [age |-> info.age, height |-> info.height, weight |-> info.weight,
   rmse3d |-> metrics.rmse3d,
   knee_angle_rmse |-> metrics.knee_angle_rmse,
   hip_abduction_angle_rmse |-> metrics.hip_abduction_angle_rmse]

\* f"s3://{bucket_name}/{report_s3_path}"
s3_uri(bucket, path) == <<"s","3",":","/","/">> \o bucket \o <<"/">> \o path

\* NamedTemporaryFile(..., delete=False)
delete_default == TRUE
delete == FALSE

NoFile == [exists |-> FALSE, open |-> FALSE, content |-> <<>>]

\* ------------------------------------------------------------------ state
VARIABLES
  fn,              \* the entry point this behaviour calls
  pc,              \* position in the called function
  error,           \* the exception that left the call, or "none"
  ret,             \* the value returned: None until the call returns
  table,           \* rows the warehouse holds for table_name
  conn,            \* the warehouse connection: "none", "open", "closed"
  df,              \* the dataframe read_sql returned: None until it has
  bucket_name,     \* argument of generate_physio_report
  response,        \* response.output_text: None until the endpoint answers
  report,          \* json.loads(response.output_text)
  physio_feedback, \* json.dumps(report, indent=2)
  temp,            \* the NamedTemporaryFile on the local disk
  s3,              \* the object uploaded to the blob store
  stdout,          \* lines printed
  trace            \* the steps of generate_physio_report started so far

fetch_vars == <<table, conn, df>>
gen_vars == <<bucket_name, response, report, physio_feedback, temp, s3, stdout, trace>>
vars == <<fn, pc, error, ret, table, conn, df,
          bucket_name, response, report, physio_feedback, temp, s3, stdout, trace>>

InitFetch ==
  /\ fn = "fetch"
  /\ pc = "connect"
  /\ table \in Tables
  /\ bucket_name = <<>>

InitGenerate ==
  /\ fn = "generate"
  /\ pc = "create"
  /\ table = <<>>
  /\ bucket_name \in Buckets

Init ==
  /\ InitFetch \/ InitGenerate
  /\ error = "none"
  /\ ret = None
  /\ conn = "none"
  /\ df = None
  /\ response = None
  /\ report = None
  /\ physio_feedback = None
  /\ temp = NoFile
  /\ s3 = None
  /\ stdout = <<>>
  /\ trace = <<>>

Raise(e) == pc' = "raised" /\ error' = e
Started(step, ok) == trace' = Append(trace, [step |-> step, ok |-> ok])

\* ------------------------------------ fetch_rmse_metrics_from_snowflake
\* line 15: connect_snowflake()
Connect ==
  /\ fn = "fetch" /\ pc = "connect"
  /\ conn' = "open"
  /\ pc' = "read_sql"
  /\ UNCHANGED <<fn, error, ret, table, df, gen_vars>>

ConnectFails ==
  /\ fn = "fetch" /\ pc = "connect"
  /\ Raise("ConnectivityError")
  /\ UNCHANGED <<fn, ret, table, conn, df, gen_vars>>

\* line 18: pd.read_sql(query, conn)
ReadSql ==
  /\ fn = "fetch" /\ pc = "read_sql"
  /\ df' = Some(table)
  /\ pc' = "close"
  /\ UNCHANGED <<fn, error, ret, table, conn, gen_vars>>

ReadSqlFails ==
  /\ fn = "fetch" /\ pc = "read_sql"
  /\ Raise("ConnectivityError")
  /\ UNCHANGED <<fn, ret, table, conn, df, gen_vars>>

\* line 19: conn.close()
Close ==
  /\ fn = "fetch" /\ pc = "close"
  /\ conn' = "closed"
  /\ pc' = "reshape"
  /\ UNCHANGED <<fn, error, ret, table, df, gen_vars>>

\* lines 22-28
Reshape ==
  /\ fn = "fetch" /\ pc = "reshape"
  /\ ~rmse_metrics(Get(df)).raised
  /\ ret' = Some(rmse_metrics(Get(df)).val)
  /\ pc' = "returned"
  /\ UNCHANGED <<fn, error, table, conn, df, gen_vars>>

ReshapeFails ==
  /\ fn = "fetch" /\ pc = "reshape"
  /\ rmse_metrics(Get(df)).raised
  /\ Raise("IndexError")
  /\ UNCHANGED <<fn, ret, table, conn, df, gen_vars>>

\* ------------------------------------------------ generate_physio_report
\* lines 43-130: build the prompt and the schema, call the endpoint
InferenceCall ==
  /\ fn = "generate" /\ pc = "create"
  /\ \E t \in ResponseTexts : response' = Some(t)
  /\ Started("infer", TRUE)
  /\ pc' = "decode"
  /\ UNCHANGED <<fn, error, ret, fetch_vars, bucket_name, report, physio_feedback, temp, s3, stdout>>

InferenceFails ==
  /\ fn = "generate" /\ pc = "create"
  /\ Started("infer", FALSE)
  /\ Raise("InferenceError")
  /\ UNCHANGED <<fn, ret, fetch_vars, bucket_name, response, report, physio_feedback, temp, s3, stdout>>

\* lines 133-134: json.loads, then json.dumps(report, indent=2)
Decode ==
  /\ fn = "generate" /\ pc = "decode"
  /\ ~json_loads(Get(response)).raised
  /\ report' = Some(json_loads(Get(response)).val)
  /\ physio_feedback' = Some(json_dumps(json_loads(Get(response)).val, 2))
  /\ Started("decode", TRUE)
  /\ pc' = "tempfile"
  /\ UNCHANGED <<fn, error, ret, fetch_vars, bucket_name, response, temp, s3, stdout>>

DecodeFails ==
  /\ fn = "generate" /\ pc = "decode"
  /\ json_loads(Get(response)).raised
  /\ Started("decode", FALSE)
  /\ Raise("JSONDecodeError")
  /\ UNCHANGED <<fn, ret, fetch_vars, bucket_name, response, report, physio_feedback, temp, s3, stdout>>

\* line 137: tempfile.NamedTemporaryFile(mode="w+", suffix=".json", delete=False)
CreateTemp ==
  /\ fn = "generate" /\ pc = "tempfile"
  /\ temp' = [exists |-> TRUE, open |-> TRUE, content |-> <<>>]
  /\ Started("tempfile", TRUE)
  /\ pc' = "dump"
  /\ UNCHANGED <<fn, error, ret, fetch_vars, bucket_name, response, report, physio_feedback, s3, stdout>>

CreateTempFails ==
  /\ fn = "generate" /\ pc = "tempfile"
  /\ Started("tempfile", FALSE)
  /\ Raise("OSError")
  /\ UNCHANGED <<fn, ret, fetch_vars, bucket_name, response, report, physio_feedback, temp, s3, stdout>>

\* lines 138-140: json.dump(physio_feedback, temp_json, indent=2); flush
WriteTemp ==
  /\ fn = "generate" /\ pc = "dump"
  /\ temp' = [temp EXCEPT !.content = json_dumps(JStr(Get(physio_feedback)), 2)]
  /\ Started("write", TRUE)
  /\ pc' = "exit_with"
  /\ UNCHANGED <<fn, error, ret, fetch_vars, bucket_name, response, report, physio_feedback, s3, stdout>>

\* the write fails with part of the text on disk; the with block closes the file
WriteTempFails ==
  /\ fn = "generate" /\ pc = "dump"
  /\ LET text == json_dumps(JStr(Get(physio_feedback)), 2)
     IN  \E n \in {0, Len(text) \div 2} :
           temp' = [exists |-> ~delete, open |-> FALSE,
                    content |-> IF delete THEN <<>> ELSE SubSeq(text, 1, n)]
  /\ Started("write", FALSE)
  /\ Raise("OSError")
  /\ UNCHANGED <<fn, ret, fetch_vars, bucket_name, response, report, physio_feedback, s3, stdout>>

\* line 137, leaving the with block: the file is closed, removed only if delete
ExitWith ==
  /\ fn = "generate" /\ pc = "exit_with"
  /\ temp' = [exists |-> ~delete, open |-> FALSE,
              content |-> IF delete THEN <<>> ELSE temp.content]
  /\ pc' = "upload"
  /\ UNCHANGED <<fn, error, ret, fetch_vars, bucket_name, response, report, physio_feedback, s3, stdout, trace>>

\* line 143: s3_client.upload_file(temp_path, bucket_name, report_s3_path)
Upload ==
  /\ fn = "generate" /\ pc = "upload"
  /\ temp.exists
  /\ s3' = Some([bucket |-> bucket_name, key |-> report_s3_path, body |-> temp.content])
  /\ Started("upload", TRUE)
  /\ pc' = "print"
  /\ UNCHANGED <<fn, error, ret, fetch_vars, bucket_name, response, report, physio_feedback, temp, stdout>>

UploadFails_logged ==
  /\ fn = "generate" /\ pc = "upload"
  /\ Started("upload", FALSE)
  /\ stdout' = Append(stdout, s3_uri(bucket_name, report_s3_path))
  /\ Raise("StorageError")
  /\ UNCHANGED <<fn, ret, fetch_vars, bucket_name, response, report, physio_feedback, temp, s3>>
UploadFails_swallowed ==
  /\ fn = "generate" /\ pc = "upload"
  /\ Started("upload", FALSE)
  /\ pc' = "print"
  /\ UNCHANGED <<fn, error, ret, fetch_vars, bucket_name, response, report, physio_feedback, temp, s3, stdout>>
UploadFails ==
  /\ fn = "generate" /\ pc = "upload"
  /\ Started("upload", FALSE)
  /\ Raise("StorageError")
  /\ UNCHANGED <<fn, ret, fetch_vars, bucket_name, response, report, physio_feedback, temp, s3, stdout>>

\* line 144: the diagnostic message
LogUploaded ==
  /\ fn = "generate" /\ pc = "print"
  /\ stdout' = Append(stdout, s3_uri(bucket_name, report_s3_path))
  /\ Started("print", TRUE)
  /\ pc' = "return"
  /\ UNCHANGED <<fn, error, ret, fetch_vars, bucket_name, response, report, physio_feedback, temp, s3>>

\* lines 146-151
Return ==
  /\ fn = "generate" /\ pc = "return"
  /\ ret' = Some([prompt |-> prompt_text(patient_info, rmse_metrics_arg),
                  report_dict |-> Get(report),
                  report_json |-> Get(physio_feedback),
                  report_s3_path |-> s3_uri(bucket_name, report_s3_path)])
  /\ Started("return", TRUE)
  /\ pc' = "returned"
  /\ UNCHANGED <<fn, error, fetch_vars, bucket_name, response, report, physio_feedback, temp, s3, stdout>>

Next ==
  \/ Connect \/ ConnectFails
  \/ ReadSql \/ ReadSqlFails
  \/ Close
  \/ Reshape \/ ReshapeFails
  \/ InferenceCall \/ InferenceFails
  \/ Decode \/ DecodeFails
  \/ CreateTemp \/ CreateTempFails
  \/ WriteTemp \/ WriteTempFails
  \/ ExitWith
  \/ Upload \/ UploadFails
  \/ LogUploaded
  \/ Return

Spec == Init /\ [][Next]_vars

Exited == pc \in {"returned", "raised"}

TypeOK ==
  /\ fn \in {"fetch", "generate"}
  /\ pc \in {"connect", "read_sql", "close", "reshape", "create", "decode", "tempfile",
             "dump", "exit_with", "upload", "print", "return", "returned", "raised"}
  /\ conn \in {"none", "open", "closed"}

\* ------------------------------------------------------------ properties
StepOrder == <<"infer", "decode", "tempfile", "write", "upload", "print", "return">>

\* C1: every call of fetch_rmse_metrics_from_snowflake that opened the
\* warehouse connection has closed it when the call exits, whether it
\* returns or raises.
C1_ConnectionClosedOnExit ==
  (fn = "fetch" /\ Exited /\ conn # "none") => conn = "closed"

\* C2: when the endpoint's text is not valid JSON the call raises the parse
\* error; no temporary file is written, nothing is uploaded and nothing is
\* returned.
C2_MalformedNoUpload ==
  (fn = "generate" /\ IsSome(response) /\ Get(response) \in MalformedTexts) =>
    /\ pc \in {"decode", "raised"}
    /\ pc = "raised" => error = "JSONDecodeError"
    /\ temp = NoFile
    /\ s3 = None
    /\ ret = None
    /\ \A i \in 1..Len(trace) : trace[i].step \notin {"tempfile", "write", "upload"}

C2_Witness ==
  /\ fn = "generate" /\ IsSome(response) /\ Get(response) \in MalformedTexts
  /\ pc = "raised" /\ error = "JSONDecodeError"

\* C3: for a schema-conforming report, the content of the uploaded object,
\* parsed once as JSON, equals the decoded report object.
C3_RoundTrip ==
  (fn = "generate" /\ IsSome(s3) /\ Get(report) \in Reports) =>
    /\ ~json_loads(Get(s3).body).raised
    /\ json_loads(Get(s3).body).val = Get(report)

\* C4: a query result with no KNEE_ANGLE row, or with no HIP_ABDUCTION_ANGLE
\* row, makes the call raise the lookup error (IndexError); no summary is
\* returned.
C4_MissingAngleRaises ==
  (fn = "fetch" /\ IsSome(df)) =>
    LET d == Get(df)
        missing == \/ \A i \in 1..Len(d) : d[i].KEYPOINT_NAME # KNEE_ANGLE
                   \/ \A i \in 1..Len(d) : d[i].KEYPOINT_NAME # HIP_ABDUCTION_ANGLE
    IN  missing => /\ ret = None
                   /\ Exited => (pc = "raised" /\ error = "IndexError")

C4_Witness ==
  /\ fn = "fetch" /\ IsSome(df) /\ pc = "raised" /\ error = "IndexError"
  /\ \E i \in 1..Len(Get(df)) : Get(df)[i].KEYPOINT_NAME = KNEE_ANGLE
  /\ \A i \in 1..Len(Get(df)) : Get(df)[i].KEYPOINT_NAME # HIP_ABDUCTION_ANGLE

\* C5: in a returned summary no key of 3D_RMSE contains "ANGLE", and the
\* name of every row that does not contain "ANGLE" is a key of 3D_RMSE.
C5_PositionalExcludesAngles ==
  (fn = "fetch" /\ pc = "returned") =>
    LET m == Get(ret).rmse3d
        d == Get(df)
    IN  /\ \A k \in DOMAIN m : ~Contains(k, ANGLE)
        /\ \A i \in 1..Len(d) :
             ~Contains(d[i].KEYPOINT_NAME, ANGLE) => d[i].KEYPOINT_NAME \in DOMAIN m

C5_Witness ==
  /\ fn = "fetch" /\ pc = "returned"
  /\ \E i \in 1..Len(Get(df)) : Get(df)[i].KEYPOINT_NAME = LEFT_ANKLE
  /\ LEFT_ANKLE \in DOMAIN Get(ret).rmse3d

\* C6: with exactly one KNEE_ANGLE row and exactly one HIP_ABDUCTION_ANGLE
\* row, wherever they stand, the call returns and knee_angle_rmse and
\* hip_abduction_angle_rmse are those rows' RMSE values, not swapped.
C6_ExactlyOneEach ==
  (fn = "fetch" /\ IsSome(df) /\ Exited) =>
    LET d == Get(df)
        knee == {i \in 1..Len(d) : d[i].KEYPOINT_NAME = KNEE_ANGLE}
        hip  == {i \in 1..Len(d) : d[i].KEYPOINT_NAME = HIP_ABDUCTION_ANGLE}
    IN  (Cardinality(knee) = 1 /\ Cardinality(hip) = 1) =>
          /\ pc = "returned"
          /\ \A i \in knee : Get(ret).knee_angle_rmse = d[i].RMSE
          /\ \A i \in hip : Get(ret).hip_abduction_angle_rmse = d[i].RMSE

C6_Witness ==
  /\ fn = "fetch" /\ pc = "returned" /\ Len(Get(df)) = 3
  /\ Get(df)[2].KEYPOINT_NAME = HIP_ABDUCTION_ANGLE
  /\ Get(df)[3].KEYPOINT_NAME = KNEE_ANGLE
  /\ Get(df)[1].KEYPOINT_NAME = LEFT_WRIST
  /\ Get(df)[2].RMSE # Get(df)[3].RMSE

\* C7: the steps of generate_physio_report start in the fixed order, each at
\* most once; a step that fails is the last one started, the call raises,
\* returns nothing, and every side effect present belongs to a step that ran.
C7_FailFast ==
  fn = "generate" =>
    /\ Len(trace) <= Len(StepOrder)
    /\ \A i \in 1..Len(trace) : trace[i].step = StepOrder[i]
    /\ \A i \in 1..Len(trace) :
         ~trace[i].ok => (i = Len(trace) /\ pc = "raised" /\ error # "none" /\ ret = None)
    /\ pc = "raised" => (ret = None /\ trace # <<>> /\ ~trace[Len(trace)].ok)
    /\ temp.exists => \E i \in 1..Len(trace) : trace[i] = [step |-> "tempfile", ok |-> TRUE]
    /\ IsSome(s3) => \E i \in 1..Len(trace) : trace[i] = [step |-> "upload", ok |-> TRUE]
    /\ stdout # <<>> => \E i \in 1..Len(trace) : trace[i] = [step |-> "print", ok |-> TRUE]
    /\ IsSome(ret) => \E i \in 1..Len(trace) : trace[i] = [step |-> "return", ok |-> TRUE]

C7_Witness ==
  /\ fn = "generate" /\ pc = "raised" /\ error = "StorageError"
  /\ Len(trace) = 5 /\ temp.exists /\ s3 = None /\ stdout = <<>>

\* C8: a call that returns made exactly one inference request, one temporary
\* file write, one upload and one diagnostic line; a diagnostic line exists
\* only after a successful upload.
C8_OnceEach ==
  fn = "generate" =>
    LET n(step) == Cardinality({i \in 1..Len(trace) : trace[i].step = step})
    IN  /\ pc = "returned" =>
             /\ n("infer") = 1 /\ n("tempfile") = 1 /\ n("write") = 1 /\ n("upload") = 1
             /\ Len(stdout) = 1
             /\ \A i \in 1..Len(trace) : trace[i].ok
        /\ stdout # <<>> =>
             /\ IsSome(s3)
             /\ \E i, j \in 1..Len(trace) :
                  /\ i < j
                  /\ trace[i] = [step |-> "upload", ok |-> TRUE]
                  /\ trace[j].step = "print"

C8_Witness ==
  /\ fn = "generate" /\ pc = "returned" /\ Len(stdout) = 1 /\ IsSome(s3)

\* C9: once created, the temporary file exists in every later state of the
\* call, also when the call has exited after a successful or a failed upload;
\* from the start of the upload on it is closed and holds the flushed text.
C9_TempFileKept ==
  fn = "generate" =>
    /\ (\E i \in 1..Len(trace) : trace[i] = [step |-> "tempfile", ok |-> TRUE]) => temp.exists
    /\ (pc \in {"upload", "print", "return", "returned"}
        \/ \E i \in 1..Len(trace) : trace[i].step = "upload") =>
         /\ ~temp.open
         /\ temp.content = json_dumps(JStr(Get(physio_feedback)), 2)

C9_Witness ==
  /\ fn = "generate" /\ pc = "returned" /\ IsSome(s3)
  /\ temp.exists /\ ~temp.open /\ temp.content = Get(s3).body

\* C10 as stated: a query result with more than one KNEE_ANGLE row
\* (respectively HIP_ABDUCTION_ANGLE) never makes the call fail, and the
\* angle field is the RMSE of the first such row.
C10_DuplicatesNeverFail ==
  (fn = "fetch" /\ IsSome(df) /\ Exited) =>
    LET d == Get(df)
        rows(name) == {i \in 1..Len(d) : d[i].KEYPOINT_NAME = name}
        firstRow(name) == CHOOSE i \in rows(name) : \A j \in rows(name) : i <= j
    IN  /\ Cardinality(rows(KNEE_ANGLE)) > 1 =>
             (pc = "returned"
              /\ Get(ret).knee_angle_rmse = d[firstRow(KNEE_ANGLE)].RMSE)
        /\ Cardinality(rows(HIP_ABDUCTION_ANGLE)) > 1 =>
             (pc = "returned"
              /\ Get(ret).hip_abduction_angle_rmse = d[firstRow(HIP_ABDUCTION_ANGLE)].RMSE)

\* C10 (amended): with more than one KNEE_ANGLE row and at least one
\* HIP_ABDUCTION_ANGLE row (respectively the other way round) the call
\* returns and the angle field is the RMSE of the first such row in query
\* order.
C10_FirstMatchWins ==
  (fn = "fetch" /\ IsSome(df) /\ Exited) =>
    LET d == Get(df)
        rows(name) == {i \in 1..Len(d) : d[i].KEYPOINT_NAME = name}
        firstRow(name) == CHOOSE i \in rows(name) : \A j \in rows(name) : i <= j
    IN  /\ (Cardinality(rows(KNEE_ANGLE)) > 1 /\ rows(HIP_ABDUCTION_ANGLE) # {}) =>
             (pc = "returned"
              /\ Get(ret).knee_angle_rmse = d[firstRow(KNEE_ANGLE)].RMSE)
        /\ (Cardinality(rows(HIP_ABDUCTION_ANGLE)) > 1 /\ rows(KNEE_ANGLE) # {}) =>
             (pc = "returned"
              /\ Get(ret).hip_abduction_angle_rmse = d[firstRow(HIP_ABDUCTION_ANGLE)].RMSE)

C10_Witness ==
  /\ fn = "fetch" /\ pc = "returned" /\ Len(Get(df)) = 3
  /\ Get(df)[1].KEYPOINT_NAME = KNEE_ANGLE
  /\ Get(df)[2].KEYPOINT_NAME = HIP_ABDUCTION_ANGLE
  /\ Get(df)[3].KEYPOINT_NAME = KNEE_ANGLE
  /\ Get(df)[1].RMSE # Get(df)[3].RMSE
  /\ Get(ret).knee_angle_rmse = Get(df)[1].RMSE
====
